---- MODULE Spec2Model ----
(***************************************************************************)
(* PlatyLogger (src/PlatyLogger.h): the mutex-guarded log call, the level  *)
(* masks, and the session-file rotation / archive retention algorithm.     *)
(*                                                                         *)
(* A file is a flat sequence of characters (one-character strings); the    *)
(* header and the message of a log call are opaque tokens "h<c>" / "m<c>"  *)
(* carrying the identity c of the call that produced them.                 *)
(***************************************************************************)
EXTENDS Integers, Sequences, FiniteSets, TLC

(* ------------------------------ bounds -------------------------------- *)
NumThreads == 2        \* threads calling the public API
MaxCalls == 2          \* leveled log calls made over the whole run
MaxSetterCalls == 1    \* calls of the three setters over the whole run
MaxKeep == 2           \* largest retention limit passed to the setter
MaxTail == 2           \* SpecName: characters after the 10-character label

(* ------------------------- program constants -------------------------- *)
LOGLEVEL_NONE == 0
LOGLEVEL_TRACE == 1
LOGLEVEL_INFO == 2
LOGLEVEL_DEBUG == 4
LOGLEVEL_WARNING == 8
LOGLEVEL_ERROR == 16
LOGLEVEL_FATAL == 32
LOGLEVEL_ALL == 63
DefaultPastLogsToKeep == 5
LabelLength == 10
Now == 3   \* the wall clock of the run; files of earlier runs carry times below it
MaskBits == 6

Levels ==
  {LOGLEVEL_TRACE, LOGLEVEL_INFO, LOGLEVEL_DEBUG,
   LOGLEVEL_WARNING, LOGLEVEL_ERROR, LOGLEVEL_FATAL}

Threads == 1..NumThreads
NoThread == 0

(* ------------------------- bitwise arithmetic ------------------------- *)
RECURSIVE BitAndN(_, _, _)
BitAndN(a, b, n) ==
  IF n = 0 THEN 0
  ELSE (IF a % 2 = 1 /\ b % 2 = 1 THEN 1 ELSE 0)
       + 2 * BitAndN(a \div 2, b \div 2, n - 1)

\* a & b on the low MaskBits bits (every mask and level of the model fits)
BitAnd(a, b) == BitAndN(a, b, MaskBits)

(* --------------------------- characters ------------------------------- *)
\* isspace in the "C" locale (the vertical tab has no TLA+ literal)
Whitespace == {" ", "\t", "\n", "\r", "\f"}
isspace(c) == c \in Whitespace

NL == "\n"

\* s.erase(pos0 = 0, n): drops min(n, size) leading characters
EraseFront(s, n) ==
  IF Len(s) <= n THEN << >> ELSE SubSeq(s, n + 1, Len(s))

\* erase(remove_if(begin, end, isspace), end): keeps, in order, the
\* characters for which the predicate is false
RECURSIVE RemoveSpaces(_)
RemoveSpaces(s) ==
  IF s = << >> THEN << >>
  ELSE IF isspace(Head(s)) THEN RemoveSpaces(Tail(s))
       ELSE <<Head(s)>> \o RemoveSpaces(Tail(s))

\* mutant: only the first ':' is replaced
ReplaceFirstColon(s) ==
  [i \in 1..Len(s) |->
     IF s[i] = ":" /\ \A j \in 1..(i - 1) : s[j] # ":" THEN "-" ELSE s[i]]

\* std::replace(begin, end, ':', '-')
ReplaceColons(s) == [i \in 1..Len(s) |-> IF s[i] = ":" THEN "-" ELSE s[i]]

LogPrefix == <<"l", "o", "g", "_">>
TxtSuffix == <<".", "t", "x", "t">>

\* std::getline(fs, line): the characters before the first '\n'
RECURSIVE GetLine(_)
GetLine(content) ==
  IF content = << >> \/ Head(content) = NL THEN << >>
  ELSE <<Head(content)>> \o GetLine(Tail(content))

\* the name SaveLatestLog derives from the first line of the old session file
FormatFilename(line) ==
  LogPrefix \o ReplaceColons(RemoveSpaces(EraseFront(line, LabelLength))) \o TxtSuffix

(* ------------------------------ tokens -------------------------------- *)
HeaderOf == [c \in 0..(MaxCalls + 1) |-> "h" \o ToString(c)]
MessageOf == [c \in 0..(MaxCalls + 1) |-> "m" \o ToString(c)]
Header(c) == HeaderOf[c]        \* "[h:m:s] <Level>" of call c
Message(c) == MessageOf[c]      \* the formatted message of call c
Sep == " - "

\* printf("%s - %s\n", header, messageBuffer): one console line
ConsoleRecord(c) == <<Header(c), Sep, Message(c), NL>>
\* printf("Maximum number of past logs reached, removing: %s\n", ...)
EvictionNotice(name) == <<"Maximum number of past logs reached, removing: ", name, NL>>
\* the printf of GetFileCreationTime in a build without PLATY_WINDOWS
NoUnixNotice == <<"no unix support">>

\* sprintf(creationDate, "Created - %i. %i. %i. %i:%i:%i\n\n", ...) at time Now
CreationDate ==
  <<"C", "r", "e", "a", "t", "e", "d", " ", "-", " ",
    "2", "0", "2", "4", ".", " ", "1", ".", " ", "6", ".", " ",
    "9", ":", "0", ":", "3", NL, NL>>

(* ----------------------------- variables ------------------------------ *)
VARIABLES
  logLevelsToDisplay,   \* static unsigned int
  logLevelsToSave,      \* static unsigned int
  pastLogsToKeep,       \* static unsigned int
  shouldCreateNewFile,  \* static bool
  mutex,                \* owner of the std::mutex, NoThread when free
  fs,                   \* the shared std::fstream: [open, fail]
  windows,              \* TRUE in a build with PLATY_WINDOWS
  logsDir,              \* ./logs exists
  pastDir,              \* ./logs/past_logs/ exists
  latest,               \* ./logs/latest_log.txt: NoFile or [content, mtime]
  archive,              \* entries of ./logs/past_logs/
  console,              \* what printf has written, one element per call
  pc,                   \* position of each thread
  cur,                  \* identity of the call each thread is in (0: none)
  lvl,                  \* logLevel argument of that call
  newFilename,          \* SaveLatestLog's local string, per thread
  nextCall,             \* number of the next log call
  setterCalls,          \* setter calls made so far
  hist                  \* history: what has happened so far (no program state)

vars ==
  <<logLevelsToDisplay, logLevelsToSave, pastLogsToKeep, shouldCreateNewFile,
    mutex, fs, windows, logsDir, pastDir, latest, archive, console,
    pc, cur, lvl, newFilename, nextCall, setterCalls, hist>>

progVars ==
  <<logLevelsToDisplay, logLevelsToSave, pastLogsToKeep, shouldCreateNewFile,
    mutex, fs>>
fsVars == <<logsDir, pastDir, latest, archive>>

NoFile == [exists |-> FALSE, content |-> << >>, mtime |-> 0]
File(content, mtime) == [exists |-> TRUE, content |-> content, mtime |-> mtime]

(* ---------------------------- file system ----------------------------- *)
Exists(name) == \E e \in archive : e.name = name
Entry(name) == CHOOSE e \in archive : e.name = name
NoPath == << >>      \* a default-constructed std::filesystem::path

\* CountFiles(pastLogsFilepath): the regular files among the entries
CountFiles == Cardinality({e \in archive : e.kind = "file"})

\* GetFileCreationTime: 0 when the path does not exist, the creation time in
\* a Windows build, 0 (after a printf) in any other build
GetFileCreationTime(name) ==
  IF ~Exists(name) THEN 0
  ELSE IF windows THEN Entry(name).ctime
  ELSE 0

\* the printf calls one evaluation of GetFileCreationTime(name) makes
CreationTimePrints(name) == IF Exists(name) /\ ~windows THEN 1 ELSE 0

\* GetOldestLog over the entries in directory order `order` (a sequence of
\* names): [oldest |-> the path returned, prints |-> printf calls made]
RECURSIVE OldestFrom(_, _, _)
OldestFrom(order, oldestFile, prints) ==
  IF order = << >> THEN [oldest |-> oldestFile, prints |-> prints]
  ELSE LET file == Head(order)
           first == GetFileCreationTime(oldestFile) > GetFileCreationTime(file)
           p == prints + CreationTimePrints(oldestFile) + CreationTimePrints(file)
                + (IF first THEN 0 ELSE CreationTimePrints(oldestFile))
       IN IF first \/ GetFileCreationTime(oldestFile) = 0
          THEN OldestFrom(Tail(order), file, p)
          ELSE OldestFrom(Tail(order), oldestFile, p)

GetOldestLog(order) == OldestFrom(order, NoPath, 0)

\* the orders in which directory_iterator may yield the entries
DirectoryOrders ==
  LET names == {e.name : e \in archive}
      n == Cardinality(names)
  IN {o \in [1..n -> names] : \A i, j \in 1..n : i # j => o[i] # o[j]}

RECURSIVE Repeat(_, _)
Repeat(x, n) == IF n = 0 THEN << >> ELSE <<x>> \o Repeat(x, n - 1)

(* --------------------------- initial states --------------------------- *)
\* the banner of the session file an earlier run left behind
PrevBanner ==
  <<"C", "r", "e", "a", "t", "e", "d", " ", "-", " ",
    "2", "0", "2", "4", ".", " ", "1", ".", " ", "5", ".", " ",
    "1", "0", ":", "3", "0", ":", "0">>
PrevContent == PrevBanner \o <<NL, NL, "h0", Sep, "m0", NL>>
PrevMtime == Now - 1

RegularFile(name, content, mtime, ctime) ==
  [name |-> name, kind |-> "file", content |-> content, mtime |-> mtime,
   ctime |-> ctime, empty |-> TRUE]
Directory(name, ctime, empty) ==
  [name |-> name, kind |-> "dir", content |-> << >>, mtime |-> 1,
   ctime |-> ctime, empty |-> empty]

\* what ./logs/past_logs/ may hold before the run: archives of earlier runs
\* (one of them under the name the old session file will be archived to,
\* older, as old or newer than it), and a subdirectory
ArchiveCandidates ==
  {RegularFile(FormatFilename(PrevBanner), <<"s">>, m, 1) : m \in 1..3}
  \cup {RegularFile(<<"a">>, <<"a">>, 1, 1), RegularFile(<<"b">>, <<"b">>, 1, 2),
        RegularFile(<<"z">>, <<"z">>, 1, 0)}
  \cup {Directory(<<"d">>, 1, e) : e \in BOOLEAN}

UniqueNames(S) == \A e1, e2 \in S : e1.name = e2.name => e1 = e2

InitialArchives ==
  {S \in SUBSET ArchiveCandidates : Cardinality(S) <= MaxKeep /\ UniqueNames(S)}

InitialLatest == {NoFile, File(PrevContent, PrevMtime), File(<< >>, PrevMtime)}

InitHist ==
  [lockOrder |-> << >>,      \* calls in the order they acquired the mutex
   shown |-> {},             \* calls whose display test passed
   persisted |-> << >>,      \* calls whose persist test passed, in that order
   openFailed |-> FALSE,     \* an open for writing has failed
   failedCall |-> 0,         \* the last call whose open for writing failed
   saveSetSince |-> FALSE,   \* SetLevelsToSave(mask # NONE) came after that failure
   fault |-> FALSE,          \* some file-system operation has failed
   lateKeep |-> FALSE,       \* SetNumberOfFilesToSave after the first file write began
   quiet |-> TRUE,           \* every call so far ran with display NONE, persist ALL
   lastSet |-> [fn |-> "none", arg |-> 0],   \* the last setter call
   readFailed |-> FALSE,     \* the open for reading of SaveLatestLog has failed
   saves |-> << >>,          \* calls that ran SaveLatestLog
   truncs |-> << >>,         \* calls that opened the session file with ios::out
   banners |-> << >>,        \* calls that wrote the banner
   startLatest |-> latest,   \* the session file at process start
   startFiles |-> CountFiles]

\* lines 309-316: the static initialisers
InitSettings ==
  /\ logLevelsToDisplay = LOGLEVEL_ALL
  /\ logLevelsToSave = LOGLEVEL_ALL
  /\ pastLogsToKeep = DefaultPastLogsToKeep

InitProgram ==
  /\ shouldCreateNewFile = TRUE
  /\ mutex = NoThread
  /\ fs = [open |-> FALSE, fail |-> FALSE]
  /\ console = << >>
  /\ pc = [t \in Threads |-> "idle"]
  /\ cur = [t \in Threads |-> 0]
  /\ lvl = [t \in Threads |-> 0]
  /\ newFilename = [t \in Threads |-> << >>]
  /\ nextCall = 1
  /\ setterCalls = 0

\* the working directory before the run: no ./logs, ./logs without
\* past_logs, or both, with the archives drawn from `archives`
InitFileSystem(archives) ==
  \/ /\ logsDir = FALSE /\ pastDir = FALSE
     /\ latest = NoFile /\ archive = {}
  \/ /\ logsDir = TRUE /\ pastDir = FALSE
     /\ latest \in InitialLatest /\ archive = {}
  \/ /\ logsDir = TRUE /\ pastDir = TRUE
     /\ latest \in InitialLatest /\ archive \in archives

\* Spec: the archive directory holds at most one entry
EngineArchives ==
  {S \in InitialArchives :
     /\ Cardinality(S) <= 1
     /\ \A e \in S : e.name \in {<<"a">>, <<"d">>} /\ ~(e.kind = "dir" /\ e.empty)}

\* the only build the header compiles in defines PLATY_WINDOWS (lines 297-302
\* redefine the const colour members without const)
Init ==
  /\ InitSettings
  /\ InitProgram
  /\ windows = TRUE
  /\ InitFileSystem(EngineArchives)
  /\ hist = InitHist

\* SpecRotation: one thread, every initial archive directory; the settings
\* are those a start-up sequence of setter calls can leave, and the
\* GetFileCreationTime of either branch of the #ifdef
InitRotation ==
  /\ logLevelsToDisplay \in {LOGLEVEL_ALL, LOGLEVEL_NONE}
  /\ logLevelsToSave = LOGLEVEL_ALL
  /\ pastLogsToKeep \in (0..MaxKeep) \cup {DefaultPastLogsToKeep}
  /\ InitProgram
  /\ windows \in BOOLEAN
  /\ InitFileSystem(InitialArchives)
  /\ hist = InitHist

\* SpecLevels: every pair of 6-bit masks, an empty working directory
InitLevels ==
  /\ logLevelsToDisplay \in 0..LOGLEVEL_ALL
  /\ logLevelsToSave \in 0..LOGLEVEL_ALL
  /\ pastLogsToKeep = DefaultPastLogsToKeep
  /\ InitProgram
  /\ windows = TRUE
  /\ logsDir = FALSE /\ pastDir = FALSE /\ latest = NoFile /\ archive = {}
  /\ hist = InitHist

\* SpecName: the first line of the old session file is a 10-character label
\* followed by up to MaxTail characters, or a line shorter than the label
NameAlphabet == {"1", " ", ":", ".", "\t", "-"}
Label == SubSeq(PrevBanner, 1, LabelLength)
Colons == [i \in 1..LabelLength |-> ":"]
Tails == UNION {[1..n -> NameAlphabet] : n \in 0..MaxTail}
FirstLines ==
  {l \o tl : l \in {Label, Colons}, tl \in Tails}
  \cup {SubSeq(PrevBanner, 1, k) : k \in 0..LabelLength}
  \cup {PrevBanner}

InitName ==
  /\ InitSettings
  /\ InitProgram
  /\ windows = TRUE
  /\ logsDir = TRUE /\ pastDir = TRUE /\ archive = {}
  /\ \E s \in FirstLines : latest = File(s \o <<NL, "x", NL>>, PrevMtime)
  /\ hist = InitHist

(* ------------------------------ helpers ------------------------------- *)
Go(t, p) == pc' = [pc EXCEPT ![t] = p]

\* positions inside LogToFile (and SaveLatestLog)
FileStage ==
  {"enter", "evict", "name", "copy", "open_new", "open_app", "write", "message"}
\* positions between mutex.lock() and mutex.unlock()
Locked == {"display", "save", "unlock"} \cup FileStage

\* an uncaught std::filesystem::filesystem_error leaves Log: the call ends
\* in the caller's handler (or in std::terminate) with the mutex still locked
Throw(t) ==
  /\ Go(t, "threw")
  /\ hist' = [hist EXCEPT
        !.fault = TRUE,
        !.saves = IF pc[t] = "evict" THEN Append(@, cur[t]) ELSE @]

\* mutant: the stream writes from the start of the file, over what is there
PutOver(x) ==
  latest' = IF fs.open /\ ~fs.fail
            THEN File(x, Now)
            ELSE latest

\* fs << x: appends to the session file when the stream is open and good
Put(x) ==
  latest' = IF fs.open /\ ~fs.fail
            THEN File(latest.content \o x, Now)
            ELSE latest

\* inputs of the model
CallLevels == {LOGLEVEL_ERROR}
MaskInputs == {LOGLEVEL_NONE, LOGLEVEL_ERROR}
KeepInputs == {0, 1}

(* ---------------------------- the setters ----------------------------- *)
\* a | b on the low MaskBits bits (used by the mutant below)
BitOr(a, b) == a + b - BitAnd(a, b)

\* mutant: the new levels are added to the mask (logLevelsToDisplay |= logLevels)
SetLevelsToDisplayAdding(t, logLevels) ==
  /\ pc[t] = "idle" /\ setterCalls < MaxSetterCalls
  /\ logLevelsToDisplay' = BitOr(logLevelsToDisplay, logLevels)
  /\ setterCalls' = setterCalls + 1
  /\ hist' = [hist EXCEPT !.quiet = @ /\ nextCall = 1,
                          !.lastSet = [fn |-> "display", arg |-> logLevels]]
  /\ UNCHANGED <<logLevelsToSave, pastLogsToKeep, shouldCreateNewFile, mutex, fs,
                 windows, fsVars, console, pc, cur, lvl, newFilename, nextCall>>

SetLevelsToDisplay(t, logLevels) ==
  /\ pc[t] = "idle" /\ setterCalls < MaxSetterCalls
  /\ logLevelsToDisplay' = logLevels
  /\ setterCalls' = setterCalls + 1
  /\ hist' = [hist EXCEPT !.quiet = @ /\ nextCall = 1,
                          !.lastSet = [fn |-> "display", arg |-> logLevels]]
  /\ UNCHANGED <<logLevelsToSave, pastLogsToKeep, shouldCreateNewFile, mutex, fs,
                 windows, fsVars, console, pc, cur, lvl, newFilename, nextCall>>

SetLevelsToSave(t, logLevels) ==
  /\ pc[t] = "idle" /\ setterCalls < MaxSetterCalls
  /\ logLevelsToSave' = logLevels
  /\ setterCalls' = setterCalls + 1
  /\ hist' = [hist EXCEPT !.quiet = @ /\ nextCall = 1,
                          !.lastSet = [fn |-> "save", arg |-> logLevels],
                          !.saveSetSince =
                             @ \/ (hist.openFailed /\ logLevels # LOGLEVEL_NONE)]
  /\ UNCHANGED <<logLevelsToDisplay, pastLogsToKeep, shouldCreateNewFile, mutex, fs,
                 windows, fsVars, console, pc, cur, lvl, newFilename, nextCall>>

SetNumberOfFilesToSave(t, numberToSave) ==
  /\ pc[t] = "idle" /\ setterCalls < MaxSetterCalls
  /\ pastLogsToKeep' = numberToSave
  /\ setterCalls' = setterCalls + 1
  /\ hist' = [hist EXCEPT
        !.lastSet = [fn |-> "keep", arg |-> numberToSave],
        !.lateKeep =
                @ \/ ~shouldCreateNewFile \/ \E u \in Threads : pc[u] \in FileStage]
  /\ UNCHANGED <<logLevelsToDisplay, logLevelsToSave, shouldCreateNewFile, mutex, fs,
                 windows, fsVars, console, pc, cur, lvl, newFilename, nextCall>>

(* ------------------------------- Log ---------------------------------- *)
\* Trace / Info / Debug / Warning / Error / Fatal: enter Log
Call(t, logLevel) ==
  /\ pc[t] = "idle" /\ nextCall <= MaxCalls
  /\ cur' = [cur EXCEPT ![t] = nextCall]
  /\ lvl' = [lvl EXCEPT ![t] = logLevel]
  /\ nextCall' = nextCall + 1
  /\ Go(t, "lock")
  /\ UNCHANGED <<progVars, windows, fsVars, console, newFilename, setterCalls, hist>>

\* mutant: lock() returns whoever holds the mutex
MutexFreeAlways == TRUE

\* mutex.lock() can return
MutexFree == mutex = NoThread

\* line 119: mutex.lock()
Lock(t) ==
  /\ pc[t] = "lock"
  /\ MutexFree
  /\ mutex' = t
  /\ Go(t, "display")
  /\ hist' = [hist EXCEPT
        !.lockOrder = Append(@, cur[t]),
        !.quiet = @ /\ logLevelsToDisplay = LOGLEVEL_NONE
                    /\ logLevelsToSave = LOGLEVEL_ALL]
  /\ UNCHANGED <<logLevelsToDisplay, logLevelsToSave, pastLogsToKeep,
                 shouldCreateNewFile, fs, windows, fsVars, console, cur, lvl,
                 newFilename, nextCall, setterCalls>>

\* mutant: the levels are ordered, the mask is a threshold
IsDisplayedFrom(logLevel) == logLevelsToDisplay >= logLevel

\* (logLevelsToDisplay & logLevel) != 0
IsDisplayed(logLevel) == BitAnd(logLevelsToDisplay, logLevel) # 0
\* (logLevelsToSave & logLevel) != 0
IsSaved(logLevel) == BitAnd(logLevelsToSave, logLevel) # 0

Display(t) ==
  /\ pc[t] = "display"
  /\ console' = IF IsDisplayed(lvl[t])
                THEN Append(console, ConsoleRecord(cur[t]))
                ELSE console
  /\ hist' = [hist EXCEPT !.shown = IF IsDisplayed(lvl[t]) THEN @ \cup {cur[t]} ELSE @]
  /\ Go(t, "save")
  /\ UNCHANGED <<progVars, windows, fsVars, cur, lvl, newFilename, nextCall,
                 setterCalls>>

Save(t) ==
  /\ pc[t] = "save"
  /\ IF IsSaved(lvl[t])
     THEN /\ Go(t, "enter")
          /\ hist' = [hist EXCEPT !.persisted = Append(@, cur[t])]
     ELSE /\ Go(t, "unlock")
          /\ UNCHANGED hist
  /\ UNCHANGED <<progVars, windows, fsVars, console, cur, lvl, newFilename,
                 nextCall, setterCalls>>

Unlock(t) ==
  /\ pc[t] = "unlock"
  /\ mutex' = NoThread
  /\ Go(t, "idle")
  /\ cur' = [cur EXCEPT ![t] = 0]
  /\ lvl' = [lvl EXCEPT ![t] = 0]
  /\ newFilename' = [newFilename EXCEPT ![t] = << >>]
  /\ UNCHANGED <<logLevelsToDisplay, logLevelsToSave, pastLogsToKeep,
                 shouldCreateNewFile, fs, windows, fsVars, console, nextCall,
                 setterCalls, hist>>

(* ----------------------------- LogToFile ------------------------------ *)
\* lines 144-147 and 157: the branch of LogToFile that is taken next
Branch ==
  IF shouldCreateNewFile
  THEN (IF latest.exists THEN "evict" ELSE "open_new")
  ELSE "open_app"

\* lines 138-147 with CreateLoggingDirectories: either create_directory call
\* may throw; the first may have created ./logs when the second throws
Enter(t) ==
  /\ pc[t] = "enter"
  /\ IF logsDir /\ pastDir
     THEN /\ Go(t, Branch)
          /\ UNCHANGED <<logsDir, pastDir, hist>>
     ELSE \/ /\ logsDir' = TRUE /\ pastDir' = TRUE
             /\ Go(t, Branch)
             /\ UNCHANGED hist
          \/ /\ ~logsDir
             /\ UNCHANGED <<logsDir, pastDir>>
             /\ Throw(t)
          \/ /\ logsDir' = TRUE
             /\ UNCHANGED pastDir
             /\ Throw(t)
  /\ UNCHANGED <<progVars, windows, latest, archive, console, cur, lvl,
                 newFilename, nextCall, setterCalls>>

\* std::filesystem::remove(name): the archive afterwards. A path that does
\* not exist is no error; a directory that is not empty is one.
RemoveFails(name) == Exists(name) /\ Entry(name).kind = "dir" /\ ~Entry(name).empty
Removed(name) == {e \in archive : e.name # name}

\* SaveLatestLog, lines 180-192: the scan of CountFiles, and the eviction.
\* scanOk, removeOk: whether the file system lets the scan and the delete
\* succeed
Evict(t) ==
  /\ pc[t] = "evict"
  /\ \E scanOk, removeOk \in BOOLEAN, order \in DirectoryOrders :
       LET dirsMade == ~latest.exists
           full == CountFiles >= pastLogsToKeep
           r == GetOldestLog(order)
           del == full /\ Exists(r.oldest)
       IN /\ scanOk \/ ~removeOk
          /\ removeOk \/ del
          /\ logsDir' = (logsDir \/ dirsMade)
          /\ pastDir' = (pastDir \/ dirsMade)
          /\ IF ~scanOk \/ ~pastDir'
             THEN /\ Throw(t)
                  /\ UNCHANGED <<archive, console>>
             ELSE /\ console' = IF full
                                THEN console \o Repeat(NoUnixNotice, r.prints)
                                             \o <<EvictionNotice(r.oldest)>>
                                ELSE console
                  /\ IF del /\ (~removeOk \/ RemoveFails(r.oldest))
                     THEN /\ Throw(t)
                          /\ UNCHANGED archive
                     ELSE /\ archive' = IF del THEN Removed(r.oldest) ELSE archive
                          /\ Go(t, "name")
                          /\ hist' = [hist EXCEPT !.saves = Append(@, cur[t])]
  /\ UNCHANGED <<progVars, windows, latest, cur, lvl, newFilename, nextCall,
                 setterCalls>>

\* SaveLatestLog, lines 195-212: fs.open (in | out), getline, fs.close, and
\* the formatting of the name. An open on a stream that is open fails.
Name(t) ==
  /\ pc[t] = "name"
  /\ \E openOk \in BOOLEAN :
       LET opened == openOk /\ latest.exists /\ ~fs.open
           line == IF opened THEN GetLine(latest.content) ELSE << >>
       IN /\ openOk \/ (latest.exists /\ ~fs.open)
          /\ fs' = [open |-> FALSE,
                    fail |-> ~opened \/ latest.content = << >>]
          /\ newFilename' = [newFilename EXCEPT ![t] = FormatFilename(line)]
          /\ hist' = [hist EXCEPT !.fault = @ \/ ~openOk,
                                  !.readFailed = @ \/ ~opened]
  /\ Go(t, "copy")
  /\ UNCHANGED <<logLevelsToDisplay, logLevelsToSave, pastLogsToKeep,
                 shouldCreateNewFile, mutex, windows, fsVars, console, cur, lvl,
                 nextCall, setterCalls>>

\* copy_file(from, to, update_existing): an existing regular file is replaced
\* only when the source is newer than it
Replaces(from, to) == from.mtime > to.mtime

\* the archive after std::filesystem::copy(latestLogFilepath,
\* pastLogsFilepath + name, update_existing) succeeded
Copied(name) ==
  IF ~Exists(name)
  THEN archive \cup {RegularFile(name, latest.content, Now, Now)}
  ELSE LET e == Entry(name)
       IN IF e.kind = "dir"
          THEN Removed(name) \cup {[e EXCEPT !.empty = FALSE]}
          ELSE IF Replaces(latest, e)
               THEN Removed(name) \cup {[e EXCEPT !.content = latest.content,
                                                  !.mtime = Now]}
               ELSE archive

\* SaveLatestLog, lines 215-216
Copy(t) ==
  /\ pc[t] = "copy"
  /\ \E copyOk \in BOOLEAN :
       IF copyOk /\ latest.exists /\ pastDir
       THEN /\ archive' = Copied(newFilename[t])
            /\ Go(t, "open_new")
            /\ UNCHANGED hist
       ELSE /\ Throw(t)
            /\ UNCHANGED archive
  /\ UNCHANGED <<progVars, windows, logsDir, pastDir, latest, console, cur, lvl,
                 newFilename, nextCall, setterCalls>>

\* mutant: the flag is left as it is
FlagLeftSet == shouldCreateNewFile

\* line 150: shouldCreateNewFile = false
FlagAfterRotation == FALSE

\* lines 149-155: fs.open(latestLogFilepath, ios::out), the flag, the banner
OpenNew(t) ==
  /\ pc[t] = "open_new"
  /\ \E openOk \in BOOLEAN :
       LET opened == openOk /\ logsDir /\ ~fs.open
       IN /\ openOk \/ (logsDir /\ ~fs.open)
          /\ fs' = [open |-> fs.open \/ opened, fail |-> ~opened]
          /\ latest' = IF opened THEN File(CreationDate, Now) ELSE latest
          /\ hist' = [hist EXCEPT
                !.fault = @ \/ ~opened,
                !.openFailed = @ \/ ~opened,
                !.failedCall = IF opened THEN @ ELSE cur[t],
                !.saveSetSince = @ /\ opened,
                !.truncs = Append(@, cur[t]),
                !.banners = IF opened THEN Append(@, cur[t]) ELSE @]
  /\ shouldCreateNewFile' = FlagAfterRotation
  /\ Go(t, "write")
  /\ UNCHANGED <<logLevelsToDisplay, logLevelsToSave, pastLogsToKeep, mutex,
                 windows, logsDir, pastDir, archive, console, cur, lvl,
                 newFilename, nextCall, setterCalls>>

\* line 159: fs.open(latestLogFilepath, ios::app)
OpenApp(t) ==
  /\ pc[t] = "open_app"
  /\ \E openOk \in BOOLEAN :
       LET opened == openOk /\ logsDir /\ ~fs.open
       IN /\ openOk \/ (logsDir /\ ~fs.open)
          /\ fs' = [open |-> fs.open \/ opened, fail |-> ~opened]
          /\ latest' = IF opened /\ ~latest.exists THEN File(<< >>, Now) ELSE latest
          /\ hist' = [hist EXCEPT
                !.fault = @ \/ ~opened,
                !.openFailed = @ \/ ~opened,
                !.failedCall = IF opened THEN @ ELSE cur[t],
                !.saveSetSince = @ /\ opened]
  /\ Go(t, "write")
  /\ UNCHANGED <<logLevelsToDisplay, logLevelsToSave, pastLogsToKeep,
                 shouldCreateNewFile, mutex, windows, logsDir, pastDir, archive,
                 console, cur, lvl, newFilename, nextCall, setterCalls>>

\* mutant: the failure leaves the persist mask as it is
SaveLevelsKept == logLevelsToSave

\* line 169: SetLevelsToSave(LOGLEVEL_NONE)
SaveLevelsAfterFailure == LOGLEVEL_NONE

\* lines 163-172: the header of the record, or the degradation
Write(t) ==
  /\ pc[t] = "write"
  /\ IF fs.open
     THEN /\ Put(<<Header(cur[t])>>)
          /\ Go(t, "message")
          /\ UNCHANGED <<logLevelsToSave, fs>>
     ELSE /\ logLevelsToSave' = SaveLevelsAfterFailure
          /\ fs' = [open |-> FALSE, fail |-> TRUE]
          /\ Go(t, "unlock")
          /\ UNCHANGED latest
  /\ UNCHANGED <<logLevelsToDisplay, pastLogsToKeep, shouldCreateNewFile, mutex,
                 windows, logsDir, pastDir, archive, console, cur, lvl,
                 newFilename, nextCall, setterCalls, hist>>

\* mutant: the stream is left as it is
LeftOpen == fs

\* line 174: fs.close() (on a stream that is not open it sets failbit)
Closed == [open |-> FALSE, fail |-> fs.fail \/ ~fs.open]

\* lines 165 (continued) and 174: << " - " << message << "\n"; fs.close()
WriteMessage(t) ==
  /\ pc[t] = "message"
  /\ Put(<<Sep, Message(cur[t]), NL>>)
  /\ fs' = Closed
  /\ Go(t, "unlock")
  /\ UNCHANGED <<logLevelsToDisplay, logLevelsToSave, pastLogsToKeep,
                 shouldCreateNewFile, mutex, windows, logsDir, pastDir, archive,
                 console, cur, lvl, newFilename, nextCall, setterCalls, hist>>

(* --------------------------- specification ---------------------------- *)
\* the steps of a call that is under way
Step(t) ==
  \/ Lock(t)
  \/ Display(t)
  \/ Save(t)
  \/ Enter(t)
  \/ Evict(t)
  \/ Name(t)
  \/ Copy(t)
  \/ OpenNew(t)
  \/ OpenApp(t)
  \/ Write(t)
  \/ WriteMessage(t)
  \/ Unlock(t)

Next ==
  \/ \E m \in MaskInputs : SetLevelsToDisplay(1, m)
  \/ \E m \in MaskInputs : SetLevelsToSave(1, m)
  \/ \E n \in KeepInputs : SetNumberOfFilesToSave(1, n)
  \/ \E t \in Threads :
       \/ \E l \in CallLevels : Call(t, l)
       \/ Step(t)

Spec == Init /\ [][Next]_vars

\* a thread that is inside a call keeps running: whenever it can take its
\* next step for good, it takes it
Fairness == \A t \in Threads : WF_vars(Step(t))
SpecFair == Spec /\ Fairness

\* one thread making log calls
NextRotation ==
  \/ Call(1, LOGLEVEL_ERROR)
  \/ Step(1)

SpecRotation == InitRotation /\ [][NextRotation]_vars
SpecName == InitName /\ [][NextRotation]_vars

\* one call of one thread, at any of the six levels, in an empty directory
NextLevels ==
  \/ \E l \in Levels : nextCall = 1 /\ Call(1, l)
  \/ Lock(1)
  \/ Display(1)
  \/ Save(1)
  \/ Enter(1)
  \/ OpenNew(1)
  \/ Write(1)
  \/ WriteMessage(1)
  \/ Unlock(1)

SpecLevels == InitLevels /\ [][NextLevels]_vars

\* SpecSetters: one thread; the masks at the start are those earlier setter
\* calls can have left, and the setters are called with any of these masks
\* between and after the log calls
SetterMasks ==
  {LOGLEVEL_NONE, LOGLEVEL_INFO, LOGLEVEL_ERROR, LOGLEVEL_INFO + LOGLEVEL_ERROR,
   LOGLEVEL_ALL}

InitSetters ==
  /\ logLevelsToDisplay \in SetterMasks
  /\ logLevelsToSave \in SetterMasks
  /\ pastLogsToKeep = DefaultPastLogsToKeep
  /\ InitProgram
  /\ windows = TRUE
  /\ InitFileSystem(EngineArchives)
  /\ hist = InitHist

NextSetters ==
  \/ \E m \in SetterMasks : SetLevelsToDisplay(1, m)
  \/ \E m \in SetterMasks : SetLevelsToSave(1, m)
  \/ \E n \in KeepInputs : SetNumberOfFilesToSave(1, n)
  \/ Call(1, LOGLEVEL_ERROR)
  \/ Step(1)

SpecSetters == InitSetters /\ [][NextSetters]_vars

(* ------------------------- observing a run ---------------------------- *)
Range(q) == {q[i] : i \in DOMAIN q}
AllIdle == \A t \in Threads : pc[t] = "idle"
CallsMade == nextCall - 1

\* the lines of a file: the text between line feeds (a last line that no
\* line feed ends counts when it is not empty)
RECURSIVE SplitLines(_, _)
SplitLines(content, line) ==
  IF content = << >> THEN (IF line = << >> THEN << >> ELSE <<line>>)
  ELSE IF Head(content) = NL THEN <<line>> \o SplitLines(Tail(content), << >>)
       ELSE SplitLines(Tail(content), Append(line, Head(content)))
Lines(content) == SplitLines(content, << >>)

\* the record line of call c in the session file
RecordLine(c) == <<Header(c), Sep, Message(c)>>
CallIds == 1..MaxCalls

\* the calls whose header reached the session file, in file order
HeaderCall == [c \in CallIds |-> Header(c)]
FileCalls ==
  LET heads == SelectSeq(latest.content, LAMBDA x : x \in Range(HeaderCall))
  IN [i \in DOMAIN heads |-> CHOOSE c \in CallIds : HeaderCall[c] = heads[i]]

\* the calls whose record reached the console, in console order
RecordCall == [c \in CallIds |-> ConsoleRecord(c)]
ConsoleCalls ==
  LET recs == SelectSeq(console, LAMBDA x : x \in Range(RecordCall))
  IN [i \in DOMAIN recs |-> CHOOSE c \in CallIds : RecordCall[c] = recs[i]]

\* a (no element twice) keeps the order its elements have in b
InOrderOf(a, b) ==
  /\ \A i \in DOMAIN a : a[i] \in Range(b)
  /\ \A i, j \in DOMAIN a :
       i < j => \E k, l \in DOMAIN b : k < l /\ b[k] = a[i] /\ b[l] = a[j]

(* ------------------------------ claims -------------------------------- *)

\* C1 (as stated): with the retention limit R set before the first file
\* write and at most R regular files in the archive directory at the start,
\* the archive directory never holds more than R regular files.
C1_RetentionBound ==
  (hist.startFiles <= pastLogsToKeep /\ ~hist.lateKeep)
    => CountFiles <= pastLogsToKeep

\* C2 (as stated): when the old session file is about to be opened in
\* truncate mode, the archive directory holds a regular file of the derived
\* name whose content is the content the old session file had at the start.
C2_ArchiveBeforeTruncate ==
  \A t \in Threads :
    (pc[t] = "open_new" /\ hist.startLatest.exists)
      => \E e \in archive :
           /\ e.name = newFilename[t]
           /\ e.kind = "file"
           /\ e.content = hist.startLatest.content

\* C3: never two threads between lock and unlock; without an I/O failure the
\* session file holds, after the banner, only whole record lines of single
\* calls (the last one possibly still without its message, written by the
\* thread that holds the mutex); and when every call made has passed the
\* persist test and returned, it holds exactly one record line per call.
C3_AtomicRecords ==
  /\ Cardinality({t \in Threads : pc[t] \in Locked}) <= 1
  /\ (~hist.fault /\ ~shouldCreateNewFile) =>
       LET lines == Lines(latest.content)
           recs == SubSeq(lines, 3, Len(lines))
       IN /\ Len(lines) >= 2
          /\ \A i \in DOMAIN recs :
               \/ \E c \in CallIds : recs[i] = RecordLine(c)
               \/ /\ i = Len(recs)
                  /\ \E t \in Threads :
                       pc[t] = "message" /\ mutex = t /\ recs[i] = <<Header(cur[t])>>
          /\ (AllIdle /\ hist.persisted = hist.lockOrder) =>
               /\ Len(recs) = CallsMade
               /\ \A c \in 1..CallsMade :
                    Cardinality({i \in DOMAIN recs : recs[i] = RecordLine(c)}) = 1

\* C3 witness: one thread has written the header of its record and not yet
\* the message, while another thread waits for the mutex.
C3_Witness ==
  \E t, u \in Threads :
    /\ t # u /\ pc[t] = "message" /\ pc[u] = "lock"
    /\ ~hist.fault
    /\ Lines(latest.content)[3] = <<Header(cur[t])>>

\* C4 (as stated): no leveled log call ends in an exception.
C4_NoErrorReachesCaller == \A t \in Threads : pc[t] # "threw"

\* C5: the step that finds the stream closed after a failed open for writing
\* writes no record, sets the persist mask to NONE, leaves the display mask
\* and the console alone and goes on to release the mutex; the console line
\* of that call is there when its display test passed; the unlock step
\* releases the mutex; and calls after a failure still print when their bit
\* is in the display mask.
C5_OpenFailureDegrades ==
  [][\A t \in Threads :
       /\ (pc[t] = "write" /\ ~fs.open /\ pc'[t] # pc[t]) =>
            /\ pc'[t] = "unlock"
            /\ logLevelsToSave' = LOGLEVEL_NONE
            /\ logLevelsToDisplay' = logLevelsToDisplay
            /\ latest' = latest
            /\ console' = console
            /\ (cur[t] \in hist.shown => ConsoleRecord(cur[t]) \in Range(console))
            /\ mutex' = t
       /\ (pc[t] = "unlock" /\ pc'[t] # pc[t]) =>
            (pc'[t] = "idle" /\ mutex' = NoThread)
       /\ (hist.openFailed /\ pc[t] = "display" /\ pc'[t] # pc[t]
           /\ (logLevelsToDisplay \div lvl[t]) % 2 = 1) =>
            console' = Append(console, ConsoleRecord(cur[t]))
    ]_vars

\* C5 witness: after a failed open, the failing call has returned, the
\* persist mask is NONE, and a later call has printed its console line.
C5_Witness ==
  /\ hist.openFailed /\ logLevelsToSave = LOGLEVEL_NONE
  /\ \E t \in Threads :
       /\ pc[t] = "save" /\ cur[t] > hist.failedCall
       /\ ConsoleRecord(cur[t]) \in Range(console)

\* C6 (as stated): once an open for writing has failed, no later call gets
\* into LogToFile (to open or write the session file), whatever API calls
\* follow: the only call ever found there is the one whose open failed.
C6_StaysDisabled ==
  hist.openFailed =>
    \A t \in Threads : pc[t] \in FileStage => cur[t] = hist.failedCall

\* C6 (amended): once an open for writing has failed, no later call gets
\* into LogToFile as long as SetLevelsToSave has not been called with a
\* mask other than NONE after the failure; once the failing call has
\* returned, the persist mask is NONE until then.
C6_StaysDisabledUntilSet ==
  (hist.openFailed /\ ~hist.saveSetSince) =>
    /\ \A t \in Threads : pc[t] \in FileStage => cur[t] = hist.failedCall
    /\ (\A t \in Threads : cur[t] # hist.failedCall) => logLevelsToSave = LOGLEVEL_NONE

\* C6 witness: after a failed open and with no SetLevelsToSave since, a
\* later call has gone past the persist test without entering LogToFile.
C6_Witness ==
  /\ hist.openFailed /\ ~hist.saveSetSince
  /\ \E t \in Threads :
       pc[t] = "unlock" /\ cur[t] > hist.failedCall /\ mutex = t

\* C7 (as stated): when every call ran with the display mask NONE and the
\* persist mask ALL, the console is empty, and once the calls made have
\* returned the session file holds one line per call.
C7_SilentOneLinePerCall ==
  hist.quiet =>
    /\ console = << >>
    /\ (AllIdle /\ CallsMade > 0) => Len(Lines(latest.content)) = CallsMade

\* bit L (a power of two) of a mask, by arithmetic
BitSet(mask, level) == (mask \div level) % 2 = 1

\* C8: in the step of the display test the record is printed iff the bit of
\* the call's level is set in the display mask; in the step of the persist
\* test the call enters LogToFile iff that bit is set in the persist mask,
\* and otherwise goes on to unlock.
C8_PerBitFilter ==
  [][\A t \in Threads :
       /\ (pc[t] = "display" /\ pc'[t] # pc[t]) =>
            console' = IF BitSet(logLevelsToDisplay, lvl[t])
                       THEN Append(console, ConsoleRecord(cur[t]))
                       ELSE console
       /\ (pc[t] = "save" /\ pc'[t] # pc[t]) =>
            pc'[t] = IF BitSet(logLevelsToSave, lvl[t]) THEN "enter" ELSE "unlock"
    ]_vars

\* C8 witness: an Error call with only the Error bit in the display mask and
\* every bit but Error in the persist mask: printed, and not persisted.
C8_Witness ==
  /\ pc[1] = "unlock" /\ lvl[1] = LOGLEVEL_ERROR
  /\ logLevelsToDisplay = LOGLEVEL_ERROR
  /\ logLevelsToSave = LOGLEVEL_ALL - LOGLEVEL_ERROR
  /\ console = <<ConsoleRecord(cur[1])>>
  /\ shouldCreateNewFile /\ ~latest.exists

\* C9: the records on the console and the records in the session file both
\* follow the order in which their calls acquired the mutex, so two calls
\* that reached both sinks are in the same order on both.
C9_SameOrder ==
  LET onConsole == ConsoleCalls
      inFile == FileCalls
  IN /\ InOrderOf(onConsole, hist.lockOrder)
     /\ InOrderOf(inFile, hist.lockOrder)
     /\ \A i, j \in DOMAIN onConsole :
          i < j => \A k, l \in DOMAIN inFile :
            (onConsole[i] = inFile[k] /\ onConsole[j] = inFile[l]) => k < l

\* C9 witness: the call made second acquired the mutex first (so the two
\* calls are of different threads), and both sinks show them in lock order.
C9_Witness ==
  /\ AllIdle
  /\ hist.lockOrder = <<2, 1>>
  /\ ConsoleCalls = <<2, 1>>
  /\ FileCalls = <<2, 1>>

\* the first line of a file, and the archive name the spec derives from it
FirstLineOf(content) ==
  LET ends == {i \in DOMAIN content : content[i] = NL}
      n == IF ends = {} THEN Len(content)
           ELSE (CHOOSE i \in ends : \A j \in ends : i <= j) - 1
  IN SubSeq(content, 1, n)
ExpectedName(s) ==
  LET kept == SelectSeq(SubSeq(s, 11, Len(s)), LAMBDA c : c \notin Whitespace)
  IN <<"l", "o", "g", "_">>
     \o [i \in DOMAIN kept |-> IF kept[i] = ":" THEN "-" ELSE kept[i]]
     \o <<".", "t", "x", "t">>
ExampleBanner ==
  <<"C", "r", "e", "a", "t", "e", "d", " ", "-", " ",
    "2", "0", "2", "4", ".", " ", "1", ".", " ", "5", ".", " ",
    "1", "0", ":", "3", "0", ":", "0">>
ExampleName ==
  <<"l", "o", "g", "_", "2", "0", "2", "4", ".", "1", ".", "5", ".",
    "1", "0", "-", "3", "0", "-", "0", ".", "t", "x", "t">>

\* C10: when the first line s of the old session file has been read, the
\* name handed to the copy is log_ + f(s) + .txt (f: drop 10 characters,
\* drop white space, ':' to '-'); for the banner of the example it is
\* log_2024.1.5.10-30-0.txt; and after the rotation a regular file of that
\* name, with the old content, is in the archive directory.
C10_ArchiveName ==
  LET s == FirstLineOf(hist.startLatest.content)
  IN /\ \A t \in Threads :
          (pc[t] = "copy" /\ ~hist.fault) =>
             /\ newFilename[t] = ExpectedName(s)
             /\ s = ExampleBanner => newFilename[t] = ExampleName
     /\ (hist.startLatest.exists /\ ~hist.fault /\ ~shouldCreateNewFile) =>
          \E e \in archive :
            /\ e.kind = "file" /\ e.name = ExpectedName(s)
            /\ e.content = hist.startLatest.content

\* C10 witness: the banner of the example was archived under the example's
\* name and the new session file is being written.
C10_Witness ==
  /\ FirstLineOf(hist.startLatest.content) = ExampleBanner
  /\ \E e \in archive : e.name = ExampleName /\ e.content = hist.startLatest.content
  /\ \E t \in Threads : pc[t] = "message"

\* the banner line the current process writes (CreationDate without its two
\* line feeds)
CurrentBanner == SubSeq(CreationDate, 1, Len(CreationDate) - 2)

\* C11 (as stated): whenever the rotation flag is false and the session file
\* exists and is not empty, its first line is the banner of the current
\* process, its second line is blank, and every later line is a record of a
\* call of the current process (the last one possibly still without its
\* message, while the thread that holds the mutex is writing it).
C11_SessionFileFormat ==
  (~shouldCreateNewFile /\ latest.exists /\ latest.content # << >>) =>
    LET lines == Lines(latest.content)
    IN /\ Len(lines) >= 2
       /\ lines[1] = CurrentBanner
       /\ lines[2] = << >>
       /\ \A i \in 3..Len(lines) :
            \/ \E c \in CallIds : lines[i] = RecordLine(c)
            \/ /\ i = Len(lines)
               /\ \E t \in Threads :
                    pc[t] = "message" /\ mutex = t /\ lines[i] = <<Header(cur[t])>>

\* C12: a SetLevelsToDisplay(m) call leaves the display mask equal to m
\* whatever it was, and the persist mask, the retention limit, the rotation
\* flag and the file system as they were; made when the display mask is m
\* already (a second call with the same m), it changes no program state at
\* all. The same for SetLevelsToSave with the two masks exchanged.
C12_SettersOverwrite ==
  [][setterCalls' # setterCalls =>
       LET call == hist'.lastSet
       IN /\ call.fn = "display" =>
               /\ logLevelsToDisplay' = call.arg
               /\ UNCHANGED <<logLevelsToSave, pastLogsToKeep, shouldCreateNewFile,
                              fsVars>>
               /\ logLevelsToDisplay = call.arg =>
                    UNCHANGED <<progVars, fsVars, console>>
          /\ call.fn = "save" =>
               /\ logLevelsToSave' = call.arg
               /\ UNCHANGED <<logLevelsToDisplay, pastLogsToKeep, shouldCreateNewFile,
                              fsVars>>
               /\ logLevelsToSave = call.arg =>
                    UNCHANGED <<progVars, fsVars, console>>
    ]_vars

\* C12 witness: SetLevelsToDisplay(INFO) was called, after a log call had
\* written the session file, with the persist mask at ERROR: the display
\* mask is INFO alone and the persist mask is still ERROR.
C12_Witness ==
  /\ hist.lastSet = [fn |-> "display", arg |-> LOGLEVEL_INFO]
  /\ logLevelsToDisplay = LOGLEVEL_INFO
  /\ logLevelsToSave = LOGLEVEL_ERROR
  /\ ~shouldCreateNewFile /\ latest.exists

\* C13 (as stated): every step that writes the display mask, the persist
\* mask, the rotation flag or the stream (a setter call included, also when
\* it writes the value the mask already has) is a step of the thread that
\* holds the mutex at that moment.
C13_SharedStateUnderLock ==
  [][(\/ setterCalls' # setterCalls
      \/ logLevelsToDisplay' # logLevelsToDisplay
      \/ logLevelsToSave' # logLevelsToSave
      \/ shouldCreateNewFile' # shouldCreateNewFile
      \/ fs' # fs)
       => \E t \in Threads : mutex = t /\ pc[t] \in Locked /\ pc'[t] # pc[t]
    ]_vars

\* C14 (as stated): a thread that holds the mutex eventually releases it,
\* and a thread that waits for the mutex eventually holds it.
C14_LockReleased ==
  \A t \in Threads :
    /\ (mutex = t) ~> (mutex # t)
    /\ (pc[t] = "lock") ~> (mutex = t)

\* e is a regular file of the archive directory whose reported creation time
\* is the smallest among its regular files (0, the unresolvable time, is
\* below every resolvable one)
IsOldestFile(e) ==
  /\ e.kind = "file"
  /\ \A f \in archive :
       f.kind = "file" => GetFileCreationTime(e.name) <= GetFileCreationTime(f.name)

\* C15 (as stated): when the archive transition deletes an entry of the
\* archive directory, that entry is a regular file with the smallest creation
\* time among the regular files, and in whatever order the directory is
\* iterated the entry picked is such a file (the order decides between files
\* of equal creation time at most).
C15_EvictsOldest ==
  [][\A t \in Threads :
       (pc[t] = "evict" /\ archive' # archive) =>
          /\ \E e \in archive : archive' = archive \ {e} /\ IsOldestFile(e)
          /\ \A o \in DirectoryOrders :
               \E e \in archive : e.name = GetOldestLog(o).oldest /\ IsOldestFile(e)
    ]_vars

\* the entries of the archive directory that a step deletes
Deleted == {e \in archive : \A f \in archive' : f.name # e.name}

\* C16 (as stated): an archive transition that goes on to the naming deletes
\* exactly one regular file of the archive directory, and nothing else, when
\* the count of regular files is at least R, and nothing when it is below R;
\* no other step deletes an archive entry; no step deletes the session file.
C16_OneEviction ==
  [][/\ \A t \in Threads :
          (pc[t] = "evict" /\ pc'[t] = "name") =>
             IF CountFiles >= pastLogsToKeep
             THEN Cardinality(Deleted) = 1 /\ \A e \in Deleted : e.kind = "file"
             ELSE Deleted = {}
     /\ (\A t \in Threads : pc[t] # "evict") => Deleted = {}
     /\ latest.exists => latest'.exists
    ]_vars

\* C17: the rotation flag, once false, is never true again; over the whole
\* run SaveLatestLog runs at most once, the session file is opened with
\* ios::out at most once and the banner is written at most once, each time
\* by the first call that passed the persist test; and after the open with
\* ios::out the flag is false.
C17_OneRotation ==
  [][/\ shouldCreateNewFile' => shouldCreateNewFile
     /\ Len(hist'.saves) <= 1 /\ Len(hist'.truncs) <= 1 /\ Len(hist'.banners) <= 1
     /\ \A c \in Range(hist'.saves) \cup Range(hist'.truncs) \cup Range(hist'.banners) :
          c = hist'.persisted[1]
     /\ hist'.truncs # << >> => ~shouldCreateNewFile'
     /\ (\A t \in Threads : pc[t] \in {"evict", "name", "copy", "open_new"}
                              => shouldCreateNewFile)
    ]_vars

\* C17 witness: the first call archived the old session file, opened the new
\* one and wrote the banner; a second call, of another thread, has appended
\* its record, and the flag is false.
C17_Witness ==
  /\ ~shouldCreateNewFile /\ AllIdle
  /\ hist.saves = <<hist.persisted[1]>>
  /\ hist.truncs = hist.saves /\ hist.banners = hist.saves
  /\ Len(hist.persisted) = 2 /\ Len(FileCalls) = 2

IsPrefix(a, b) == Len(a) <= Len(b) /\ SubSeq(b, 1, Len(a)) = a

\* C18: once the rotation flag is false, every step leaves the content the
\* session file had as a prefix of its new content; the write of a call
\* whose open succeeded appends the header and then " - ", the message and
\* the line feed (one record line, at the end); and every other step, the
\* step after a failed open included, leaves the content as it is.
C18_AppendOnly ==
  [][~shouldCreateNewFile =>
       /\ IsPrefix(latest.content, latest'.content)
       /\ \A t \in Threads :
            /\ (pc[t] = "write" /\ pc'[t] = "message") =>
                 latest'.content = latest.content \o <<Header(cur[t])>>
            /\ (pc[t] = "message" /\ pc'[t] = "unlock") =>
                 /\ latest.content[Len(latest.content)] = Header(cur[t])
                 /\ latest'.content = latest.content \o <<Sep, Message(cur[t]), NL>>
       /\ (\A t \in Threads :
             ~(pc[t] = "write" /\ pc'[t] = "message")
             /\ ~(pc[t] = "message" /\ pc'[t] = "unlock"))
            => latest'.content = latest.content
    ]_vars

\* C18 witness: a call has appended its record, as the second record, behind
\* the banner and the record of the other call.
C18_Witness ==
  \E t \in Threads, c \in CallIds :
    /\ pc[t] = "unlock" /\ c # cur[t]
    /\ latest.content =
         CreationDate \o RecordLine(c) \o <<NL>> \o RecordLine(cur[t]) \o <<NL>>

\* C19 (as stated): when the open for reading of the old session file has
\* failed, no archive name is built (the name stays empty), no call ends in
\* an exception, and the call that has gone through the rotation has the
\* flag false and the new session file, with its banner, under way.
C19_UnreadableBannerNonFatal ==
  hist.readFailed =>
    \A t \in Threads :
      /\ pc[t] # "threw"
      /\ pc[t] \in {"copy", "open_new", "write", "message", "unlock"}
           => newFilename[t] = << >>
      /\ pc[t] \in {"message", "unlock"} =>
           /\ ~shouldCreateNewFile
           /\ IsPrefix(CreationDate, latest.content)

\* C20: whenever no thread holds the mutex the stream fs is closed; a call
\* that is about to unlock has closed it; and at every open (for the banner
\* read, with ios::out, with ios::app) the stream is closed.
C20_ClosedBetweenWrites ==
  /\ mutex = NoThread => ~fs.open
  /\ \A t \in Threads :
       /\ pc[t] = "unlock" => ~fs.open
       /\ pc[t] \in {"name", "open_new", "open_app"} => ~fs.open

\* C20 witness: a call has read the old banner, written the new session file
\* and its record and released the mutex; the stream is closed and another
\* call is about to lock.
C20_Witness ==
  /\ mutex = NoThread /\ ~fs.open /\ ~hist.fault
  /\ Len(hist.saves) = 1 /\ Len(FileCalls) = 1
  /\ \E t \in Threads : pc[t] = "lock"

====
